---- MODULE Spec2Model ----
(***************************************************************************)
(* Model of the multi-source book integration pipeline                     *)
(* (src/src/integrate_pipeline.py).                                         *)
(*                                                                         *)
(* A string is a sequence of one-character strings, so that strip, lower,  *)
(* upper, str() and concatenation are computed and not assumed.  A frame   *)
(* cell is a record [k, s, n]: k is the kind of the Python value           *)
(* ("none" = None, "nan" = float NaN / NaT / pd.NA, "str", "int",          *)
(* "float"), s the characters of a str, n the value of a number.           *)
(***************************************************************************)
EXTENDS Integers, Sequences, FiniteSets, TLC

\* ------------------------------------------------------------------ bounds
\* Most rows in landing/goodreads_books.json.
MaxGoodreads == 2
\* Most rows in landing/googlebooks_books.csv.
MaxGoogle == 2
\* Most rows of a canonical table handed to the validator on its own.
MaxTable == 5

\* ------------------------------------------------------- program constants
\* assert_quality_constraints: frac_titulo >= 0.8 (in tenths), min_year >= 1800,
\* min_price > 0
MinTitleTenths == 8
MinYear == 1800
MinPrice == 0
\* build_dim_book: source_priority, and fillna(0) for any other source
PriorityGoogle == 2
PriorityGoodreads == 1
PriorityOther == 0

\* ------------------------------------------------------------------- cells
None == [k |-> "none", s |-> <<>>, n |-> 0]
NaN == [k |-> "nan", s |-> <<>>, n |-> 0]
StrCell(s) == [k |-> "str", s |-> s, n |-> 0]
IntCell(n) == [k |-> "int", s |-> <<>>, n |-> n]
FloatCell(n) == [k |-> "float", s |-> <<>>, n |-> n]

\* isinstance(x, str)
IsStr(c) == c.k = "str"
\* pandas isna / notna: None and NaN are both missing
IsNull(c) == c.k \in {"none", "nan"}
NotNa(c) == ~IsNull(c)
\* Python truthiness, as used by `x or ""`: None, "" and 0 are falsy, NaN is truthy
Truthy(c) ==
    CASE c.k = "none" -> FALSE
      [] c.k = "nan" -> TRUE
      [] c.k = "str" -> c.s # <<>>
      [] OTHER -> c.n # 0

\* ----------------------------------------------------------------- strings
\* The characters of the model, in code point order.
Alphabet ==
    <<" ", "-", ".", "/", "0", "1", "2", "3", "4", "5", "6", "7", "8", "9",
      "A", "D", "E", "N", "S", "U", "X",
      "a", "d", "e", "h", "m", "n", "o", "s", "u", "x", "|">>

CodePoint(c) == CHOOSE i \in 1..Len(Alphabet) : Alphabet[i] = c

Digits == <<"0", "1", "2", "3", "4", "5", "6", "7", "8", "9">>

IsDigit(c) == \E i \in 1..10 : Digits[i] = c

DigitValue(c) == (CHOOSE i \in 1..10 : Digits[i] = c) - 1

LowerChar(c) ==
    CASE c = "A" -> "a" [] c = "D" -> "d" [] c = "E" -> "e"
      [] c = "N" -> "n" [] c = "S" -> "s" [] c = "U" -> "u"
      [] c = "X" -> "x" [] OTHER -> c

UpperChar(c) ==
    CASE c = "a" -> "A" [] c = "d" -> "D" [] c = "e" -> "E"
      [] c = "n" -> "N" [] c = "s" -> "S" [] c = "u" -> "U"
      [] c = "x" -> "X" [] OTHER -> c

\* str.lower(), str.upper()
Lower(s) == [i \in 1..Len(s) |-> LowerChar(s[i])]
Upper(s) == [i \in 1..Len(s) |-> UpperChar(s[i])]

\* str.strip(): drops the leading and the trailing blanks
Strip(s) ==
    LET nb == {i \in 1..Len(s) : s[i] # " "}
    IN  IF nb = {} THEN <<>>
        ELSE LET lo == CHOOSE i \in nb : \A j \in nb : i <= j
                 hi == CHOOSE i \in nb : \A j \in nb : j <= i
             IN  SubSeq(s, lo, hi)

\* str(n) of a non-negative integer
RECURSIVE IntToStr(_)
IntToStr(n) ==
    IF n < 10 THEN <<Digits[n + 1]>>
    ELSE IntToStr(n \div 10) \o <<Digits[(n % 10) + 1]>>

\* int(s) of a string of digits
RECURSIVE StrToInt(_)
StrToInt(s) ==
    IF s = <<>> THEN 0
    ELSE 10 * StrToInt(SubSeq(s, 1, Len(s) - 1)) + DigitValue(s[Len(s)])

IsDigits(s) == s # <<>> /\ \A i \in 1..Len(s) : IsDigit(s[i])

\* str(x) / f"{x}" of a Python value
PyStr(c) ==
    CASE c.k = "none" -> <<"N", "o", "n", "e">>
      [] c.k = "nan" -> <<"n", "a", "n">>
      [] c.k = "str" -> c.s
      [] c.k = "int" -> IntToStr(c.n)
      [] OTHER -> IntToStr(c.n) \o <<".", "0">>

\* s < t for Python strings (code point order, a prefix first)
StrLess(s, t) ==
    \E i \in 1..(Len(t)) :
        /\ \A j \in 1..(i - 1) : j <= Len(s) /\ s[j] = t[j]
        /\ i - 1 <= Len(s)
        /\ (i > Len(s) \/ CodePoint(s[i]) < CodePoint(t[i]))

\* --------------------------------------------------------- pandas columns
\* A column is a sequence of cells.  Its dtype follows from its cells: int64
\* holds only ints, float64 only floats and NaN, anything else is object.
IsInt64(col) == Len(col) > 0 /\ \A i \in 1..Len(col) : col[i].k = "int"
IsFloat64(col) == Len(col) > 0 /\ \A i \in 1..Len(col) : col[i].k \in {"float", "nan"}

\* A text that float() accepts (the model's numbers are unsigned integers).
IsNumericText(c) == c.k = "int" \/ (c.k = "str" /\ IsDigits(Strip(c.s)))

NumberOf(c) == IF c.k = "int" THEN c.n ELSE StrToInt(Strip(c.s))

\* The dtype inference of pd.read_json and pd.read_csv on one column of file
\* cells (a text or a JSON number, or None for null / an empty CSV field): a
\* column whose non-null cells all read as numbers becomes int64, or float64
\* with NaN when a cell is missing; any other column stays object, a missing
\* cell being `null` there (None from JSON, NaN from CSV).
InferColumn(cells, null) ==
    LET present == {i \in 1..Len(cells) : cells[i].k # "none"}
    IN  IF \A i \in present : IsNumericText(cells[i])
        THEN [i \in 1..Len(cells) |->
                IF i \notin present THEN NaN
                ELSE IF present = 1..Len(cells) THEN IntCell(NumberOf(cells[i]))
                ELSE FloatCell(NumberOf(cells[i]))]
        ELSE [i \in 1..Len(cells) |->
                IF i \in present THEN cells[i] ELSE null]

\* pd.concat of two columns: int64 with float64 gives float64, a column of
\* object dtype on either side keeps every cell as it is.
ConcatColumn(a, b) ==
    IF (IsInt64(a) /\ IsFloat64(b)) \/ (IsFloat64(a) /\ IsInt64(b))
    THEN [i \in 1..(Len(a) + Len(b)) |->
            LET c == (a \o b)[i] IN IF c.k = "int" THEN FloatCell(c.n) ELSE c]
    ELSE a \o b

\* Series.astype("string"): str() of every present cell, pd.NA for a missing one
AsString(c) == IF IsNull(c) THEN NaN ELSE StrCell(PyStr(c))

Column(rows, f) == [i \in 1..Len(rows) |-> rows[i][f]]

\* ------------------------------------------------------------ landing files
\* The texts the two acquisition scripts leave in the landing files.
Dune == <<"D", "u", "n", "e">>
DuneSpaced == <<" ", "d", "u", "n", "e">>
Emma == <<"E", "m", "m", "a">>
Isbn978 == <<"9", "7", "8">>
Isbn97X == <<"9", "7", "X">>
Date2016 == <<"2", "0", "1", "6", "-", "0", "1", "-", "0", "5">>
Date1799 == <<"1", "7", "9", "9", "-", "0", "1", "-", "0", "1">>
NotADate == <<"n", "/", "a">>

\* Records of landing/goodreads_books.json (the columns the pipeline reads).
GoodreadsRecord(title, authors, rating, pub, isbn) ==
    [title |-> title, authors |-> authors, rating_value |-> rating,
     publication_info_raw |-> pub, isbn13 |-> isbn]

GoodreadsRecords ==
    { GoodreadsRecord(StrCell(Dune), StrCell(<<"h">>), IntCell(4), StrCell(NotADate), StrCell(Isbn978)),
      GoodreadsRecord(StrCell(DuneSpaced), StrCell(<<"h">>), IntCell(5), StrCell(Date2016), StrCell(Isbn978)),
      GoodreadsRecord(None, None, None, None, None),
      GoodreadsRecord(StrCell(Emma), StrCell(<<"a">>), IntCell(3), StrCell(Date1799), None),
      GoodreadsRecord(StrCell(Emma), StrCell(<<"a">>), None, None, StrCell(Isbn97X)) }

\* Rows of landing/googlebooks_books.csv (the columns the pipeline reads).
GoogleRecord(title, authors, publisher, date, lang, isbn, price, currency) ==
    [title_gb |-> title, authors_gb |-> authors, publisher |-> publisher,
     published_date_raw |-> date, language_raw |-> lang, isbn13_gb |-> isbn,
     price_amount |-> price, price_currency |-> currency]

GoogleRecords ==
    { GoogleRecord(StrCell(Lower(Dune)), StrCell(<<"h">>), StrCell(<<"a", "d">>), StrCell(Date2016),
                   StrCell(<<"E", "N">>), StrCell(Isbn978), StrCell(<<"1">>), StrCell(<<"u", "s", "d">>)),
      GoogleRecord(StrCell(Dune), StrCell(<<"h">>), None, None,
                   StrCell(<<"e", "n", "-", "U", "S">>), StrCell(Isbn97X), None, None),
      GoogleRecord(StrCell(Emma), StrCell(<<"a">>), StrCell(<<"a", "d">>), None,
                   None, None, StrCell(<<"0">>), StrCell(<<" ", "u", "s", "d">>)),
      GoogleRecord(None, None, None, None, None, None, None, None) }

SeqsUpTo(S, n) == UNION {[1..k -> S] : k \in 0..n}

\* A landing file: present or not, and the records it holds.
LandingFiles(S, n) ==
    {[exists |-> FALSE, rows |-> <<>>]} \cup {[exists |-> TRUE, rows |-> r] : r \in SeqsUpTo(S, n)}

\* ------------------------------------------------------------------ loaders
\* load_goodreads after the existence check: read_json, then the common model.
\* (Pass-through columns that no step reads are left out: source_id,
\* source_file, autores, paginas, isbn10, categoria_raw, ratings_count,
\* url_detalle, fuente_registro.)
load_goodreads(rows) ==
    LET col(f) == InferColumn(Column(rows, f), None)
        title == col("title")
        authors == col("authors")
        rating == col("rating_value")
        pub == col("publication_info_raw")
        isbn == col("isbn13")
    IN  [i \in 1..Len(rows) |->
            [source |-> "goodreads", row_number |-> i, title |-> title[i],
             autor_principal |-> authors[i], editorial |-> None,
             fecha_publicacion_raw |-> pub[i], anio_publicacion |-> None,
             idioma_raw |-> None, isbn13 |-> isbn[i], precio |-> None,
             moneda |-> None, rating_value |-> rating[i]]]

\* load_googlebooks after the existence check: read_csv, then the common model.
load_googlebooks(rows) ==
    LET col(f) == InferColumn(Column(rows, f), NaN)
        title == col("title_gb")
        authors == col("authors_gb")
        publisher == col("publisher")
        date == col("published_date_raw")
        lang == col("language_raw")
        isbn == col("isbn13_gb")
        price == col("price_amount")
        currency == col("price_currency")
    IN  [i \in 1..Len(rows) |->
            [source |-> "google_books", row_number |-> i, title |-> title[i],
             autor_principal |-> authors[i], editorial |-> publisher[i],
             fecha_publicacion_raw |-> date[i], anio_publicacion |-> None,
             idioma_raw |-> lang[i], isbn13 |-> isbn[i], precio |-> price[i],
             moneda |-> currency[i], rating_value |-> None]]

CommonColumns ==
    {"title", "autor_principal", "editorial", "fecha_publicacion_raw",
     "anio_publicacion", "idioma_raw", "isbn13", "precio", "moneda", "rating_value"}

\* pd.concat([df_goodreads, df_google], ignore_index=True)
concat(a, b) ==
    LET col == [f \in CommonColumns |-> ConcatColumn(Column(a, f), Column(b, f))]
        both == a \o b
    IN  [i \in 1..Len(both) |->
            [f \in CommonColumns \cup {"source", "row_number"} |->
                IF f \in CommonColumns THEN col[f][i] ELSE both[i][f]]]

\* ------------------------------------------------------------ normalization
simple_normalize_title(title) ==
    IF ~IsStr(title) THEN <<>> ELSE Lower(Strip(title.s))

normalize_language_bcp47(lang) ==
    IF ~IsStr(lang) \/ lang.s = <<>> THEN None
    ELSE LET l == Lower(Strip(lang.s))
         IN  IF Len(l) = 2 THEN StrCell(l \o <<"-">> \o Upper(l)) ELSE StrCell(l)

normalize_currency(code) ==
    IF ~IsStr(code) \/ code.s = <<>> THEN None ELSE StrCell(Upper(Strip(code.s)))

\* Mutant of WeightedSum: the weights 1 and 3 are swapped.
RECURSIVE WeightedSum_SwappedWeights(_, _)
WeightedSum_SwappedWeights(digits, i) ==
    IF i = 0 THEN 0
    ELSE WeightedSum_SwappedWeights(digits, i - 1)
         + (IF (i - 1) % 2 = 0 THEN 3 ELSE 1) * DigitValue(digits[i])

\* utils_isbn.is_valid_isbn13, lines 25-31: total over the first i digits
RECURSIVE WeightedSum(_, _)
WeightedSum(digits, i) ==
    IF i = 0 THEN 0
    ELSE WeightedSum(digits, i - 1)
         + (IF (i - 1) % 2 = 0 THEN 1 ELSE 3) * DigitValue(digits[i])

RemoveHyphens(s) == SelectSeq(s, LAMBDA c : c # "-")

\* line 21: digits = isbn.replace("-", "").strip()
isbn13_digits(isbn) == Strip(RemoveHyphens(isbn.s))

\* Mutant of isbn13_guards: len(digits) > 13 for len(digits) != 13.
isbn13_guards_AtMost13(isbn) ==
    IF ~IsStr(isbn) THEN FALSE
    ELSE ~(Len(isbn13_digits(isbn)) > 13 \/ ~IsDigits(isbn13_digits(isbn)))

\* lines 18-23: the input goes on to the checksum
isbn13_guards(isbn) ==
    IF ~IsStr(isbn) THEN FALSE
    ELSE ~(Len(isbn13_digits(isbn)) # 13 \/ ~IsDigits(isbn13_digits(isbn)))

\* lines 25-34: the weighted sum of digits[:12] against int(digits[-1])
isbn13_checksum(digits) ==
    LET first == SubSeq(digits, 1, IF Len(digits) < 12 THEN Len(digits) ELSE 12)
        total == WeightedSum(first, Len(first))
    IN  (10 - (total % 10)) % 10 = DigitValue(digits[Len(digits)])

is_valid_isbn13(isbn) ==
    IF ~isbn13_guards(isbn) THEN FALSE ELSE isbn13_checksum(isbn13_digits(isbn))

\* pd.to_datetime(..., errors="coerce") of one cell: the year and the ISO text
\* of the date, or NaT.  A text is a date when it reads YYYY-MM-DD; a number
\* is nanoseconds after 1970-01-01.
Epoch == <<"1", "9", "7", "0", "-", "0", "1", "-", "0", "1">>

IsIsoDate(s) ==
    /\ Len(s) = 10
    /\ s[5] = "-" /\ s[8] = "-"
    /\ \A i \in {1, 2, 3, 4, 6, 7, 9, 10} : IsDigit(s[i])
    /\ StrToInt(SubSeq(s, 6, 7)) \in 1..12
    /\ StrToInt(SubSeq(s, 9, 10)) \in 1..28

to_datetime(c) ==
    CASE c.k = "str" /\ IsIsoDate(c.s) -> StrCell(c.s)
      [] c.k \in {"int", "float"} -> StrCell(Epoch)
      [] OTHER -> NaN

\* Series.dt.year: int32 when every date is valid, float64 with NaN otherwise
dt_year(dates) ==
    LET anyNaT == \E i \in 1..Len(dates) : IsNull(dates[i])
    IN  [i \in 1..Len(dates) |->
            IF IsNull(dates[i]) THEN NaN
            ELSE IF anyNaT THEN FloatCell(StrToInt(SubSeq(dates[i].s, 1, 4)))
            ELSE IntCell(StrToInt(SubSeq(dates[i].s, 1, 4)))]

\* f"{x or ''}"
OrEmpty(c) == IF Truthy(c) THEN PyStr(c) ELSE <<>>

build_candidate_key(row) ==
    IF IsStr(row.isbn13) /\ Strip(row.isbn13.s) # <<>>
    THEN Strip(row.isbn13.s)
    ELSE OrEmpty(StrCell(row.title_normalized)) \o <<"|">>
         \o OrEmpty(row.autor_principal) \o <<"|">>
         \o OrEmpty(row.anio_publicacion)

Extend(row, more) ==
    [f \in DOMAIN row \cup DOMAIN more |-> IF f \in DOMAIN more THEN more[f] ELSE row[f]]

\* One row of normalize_and_add_fields, given the row's parsed date and year.
normalize_row(row, fecha, anio) ==
    LET idioma == normalize_language_bcp47(row.idioma_raw)
        moneda == normalize_currency(row.moneda)
        fields ==
            Extend(row,
                [title_normalized |-> simple_normalize_title(row.title),
                 idioma |-> idioma,
                 moneda |-> moneda,
                 fecha_publicacion |-> fecha,
                 anio_publicacion |-> anio,
                 fecha_publicacion_iso |-> fecha,
                 valid_isbn13 |-> is_valid_isbn13(row.isbn13),
                 valid_fecha_publicacion |-> NotNa(fecha),
                 valid_idioma |-> NotNa(idioma),
                 valid_moneda |-> NotNa(moneda)])
    IN  Extend(fields,
            [book_id_candidato |-> build_candidate_key(fields),
             isbn13 |-> AsString(row.isbn13)])

normalize_and_add_fields(df) ==
    LET fecha == [i \in 1..Len(df) |-> to_datetime(df[i].fecha_publicacion_raw)]
        anio == dt_year(fecha)
    IN  [i \in 1..Len(df) |-> normalize_row(df[i], fecha[i], anio[i])]

\* ---------------------------------------------------------- quality report
\* Mutant of Percentage: the sum of the flags for their mean.
Percentage_SumForMean(count, total) ==
    IF total > 0 THEN 10000 * count ELSE 0

\* round(fraction * 100, 2) with fraction = count / total, or 0.0 when total
\* is 0, in hundredths of a percent (with fewer than 32 records no fraction
\* is half-way between two hundredths, so the rounding rule has no say).
Percentage(count, total) ==
    IF total > 0 THEN (20000 * count + total) \div (2 * total) ELSE 0

\* (df[f] == v).sum()
Count(df, f, v) == Cardinality({i \in 1..Len(df) : df[i][f] = v})

\* utils_quality.compute_quality_metrics
compute_quality_metrics(df) ==
    LET total == Len(df)
        pct(f) == Percentage(Count(df, f, TRUE), total)
        keys == {df[i].book_id_candidato : i \in 1..Len(df)}
    IN  [total_registros |-> total,
         total_goodreads |-> Count(df, "source", "goodreads"),
         total_google_books |-> Count(df, "source", "google_books"),
         porcentaje_valid_isbn13 |-> pct("valid_isbn13"),
         porcentaje_valid_fecha_publicacion |-> pct("valid_fecha_publicacion"),
         porcentaje_valid_idioma |-> pct("valid_idioma"),
         porcentaje_valid_moneda |-> pct("valid_moneda"),
         claves_candidatas_duplicadas |->
            Cardinality({k \in keys : Count(df, "book_id_candidato", k) > 1})]

\* ------------------------------------------------------ survivorship merger
source_priority(source) ==
    CASE source = "google_books" -> PriorityGoogle
      [] source = "goodreads" -> PriorityGoodreads
      [] OTHER -> PriorityOther

\* df_all["source_priority"] = df_all["source"].map(source_priority).fillna(0)
with_priority(df) ==
    [i \in 1..Len(df) |->
        Extend(df[i], [source_priority |-> source_priority(df[i].source)])]

\* Mutant of SortsBefore: the priority sorted ascending too.
SortsBefore_AscendingPriority(df, i, j) ==
    LET ki == df[i].book_id_candidato
        kj == df[j].book_id_candidato
        pi == df[i].source_priority
        pj == df[j].source_priority
    IN  \/ StrLess(ki, kj)
        \/ ki = kj /\ pi < pj
        \/ ki = kj /\ pi = pj /\ i < j

\* Row i comes before row j in df.sort_values(by=[book_id_candidato,
\* source_priority], ascending=[True, False]); the sort is stable.
SortsBefore(df, i, j) ==
    LET ki == df[i].book_id_candidato
        kj == df[j].book_id_candidato
        pi == df[i].source_priority
        pj == df[j].source_priority
    IN  \/ StrLess(ki, kj)
        \/ ki = kj /\ pi > pj
        \/ ki = kj /\ pi = pj /\ i < j

\* The rows of df in sorted order, as indices into df.
sort_values(df) ==
    [p \in 1..Len(df) |->
        CHOOSE i \in 1..Len(df) :
            Cardinality({j \in 1..Len(df) : SortsBefore(df, j, i)}) = p - 1]

\* Mutant of drop_duplicates: duplicates sought on the key and the source.
drop_duplicates_KeyAndSource(df, order) ==
    LET first(p) ==
            \A q \in 1..(p - 1) :
                \/ df[order[q]].book_id_candidato # df[order[p]].book_id_candidato
                \/ df[order[q]].source # df[order[p]].source
        kept == {p \in 1..Len(order) : first(p)}
    IN  [n \in 1..Cardinality(kept) |->
            order[CHOOSE p \in kept : Cardinality({q \in kept : q < p}) = n - 1]]

\* drop_duplicates(subset=["book_id_candidato"], keep="first") on the sorted
\* indices: an index stays when no earlier one has its key.
drop_duplicates(df, order) ==
    LET first(p) ==
            \A q \in 1..(p - 1) :
                df[order[q]].book_id_candidato # df[order[p]].book_id_candidato
        kept == {p \in 1..Len(order) : first(p)}
    IN  [n \in 1..Cardinality(kept) |->
            order[CHOOSE p \in kept : Cardinality({q \in kept : q < p}) = n - 1]]

\* hashlib.md5(key).hexdigest()[:12]: an injective digest, marked by a
\* character no input text holds, so that no ISBN text equals a digest.
md5_hexdigest_12(key) == <<"#">> \o key

\* row.get(name, ''): the cell as it is rendered in an f-string
make_book_id(row) ==
    IF IsStr(row.isbn13) /\ Strip(row.isbn13.s) # <<>>
    THEN Strip(row.isbn13.s)
    ELSE LET key == row.book_id_candidato
             rebuilt == row.title_normalized \o <<"|">>
                        \o PyStr(row.autor_principal) \o <<"|">>
                        \o PyStr(row.anio_publicacion)
         IN  md5_hexdigest_12(IF key = <<>> THEN rebuilt ELSE key)

\* The winning rows of build_dim_book (df_winner), each with its book_id; df
\* is the frame with its source_priority column.
winners(df) ==
    LET order == drop_duplicates(df, sort_values(df))
    IN  [n \in 1..Len(order) |->
            Extend(df[order[n]], [book_id |-> make_book_id(df[order[n]])])]

\* Mutant of dim_row: a row without ISBN gets an id made from the timestamp.
dim_row_IdFromTimestamp(w, now) ==
    [book_id |-> IF IsStr(w.isbn13) THEN w.book_id
                 ELSE md5_hexdigest_12(w.book_id_candidato \o IntToStr(now)),
     titulo |-> w.title,
     titulo_normalizado |-> w.title_normalized,
     autor_principal |-> w.autor_principal, editorial |-> w.editorial,
     anio_publicacion |-> w.anio_publicacion,
     fecha_publicacion |-> w.fecha_publicacion_iso, idioma |-> w.idioma,
     isbn13 |-> w.isbn13, formato |-> None, precio |-> w.precio,
     moneda |-> w.moneda, rating |-> w.rating_value,
     fuente_ganadora |-> w.source, ts_ultima_actualizacion |-> now]

\* The canonical row of a winning row; now is pd.Timestamp.utcnow().
dim_row(w, now) ==
    [book_id |-> w.book_id, titulo |-> w.title,
     titulo_normalizado |-> w.title_normalized,
     autor_principal |-> w.autor_principal, editorial |-> w.editorial,
     anio_publicacion |-> w.anio_publicacion,
     fecha_publicacion |-> w.fecha_publicacion_iso, idioma |-> w.idioma,
     isbn13 |-> w.isbn13, formato |-> None, precio |-> w.precio,
     moneda |-> w.moneda, rating |-> w.rating_value,
     fuente_ganadora |-> w.source, ts_ultima_actualizacion |-> now]

build_dim_book(df, now) ==
    LET df_winners == winners(with_priority(df))
    IN  [n \in 1..Len(df_winners) |-> dim_row(df_winners[n], now)]

\* Mutant of build_book_source_detail: the detail built from the winners.
build_book_source_detail_FromWinners(df) ==
    LET w == winners(with_priority(df))
    IN  [n \in 1..Len(w) |->
            [source |-> w[n].source, row_number |-> w[n].row_number,
             book_id_candidato |-> w[n].book_id_candidato, titulo |-> w[n].title]]

\* build_book_source_detail (the ingestion timestamp is left out)
detail_row(r) ==
    [source |-> r.source, row_number |-> r.row_number,
     book_id_candidato |-> r.book_id_candidato, titulo |-> r.title,
     autor_principal |-> r.autor_principal, editorial |-> r.editorial,
     fecha_publicacion_raw |-> r.fecha_publicacion_raw,
     fecha_publicacion |-> r.fecha_publicacion_iso,
     idioma_raw |-> r.idioma_raw, idioma |-> r.idioma, isbn13 |-> r.isbn13,
     precio |-> r.precio, moneda |-> r.moneda, rating_value |-> r.rating_value,
     valid_isbn13 |-> r.valid_isbn13,
     valid_fecha_publicacion |-> r.valid_fecha_publicacion,
     valid_idioma |-> r.valid_idioma, valid_moneda |-> r.valid_moneda]

build_book_source_detail(df) == [i \in 1..Len(df) |-> detail_row(df[i])]

\* ------------------------------------------------------ constraint validator
is_unique(col) == \A i, j \in 1..Len(col) : col[i] = col[j] => i = j

\* Series.min(): the least of the present values
Min(col) ==
    LET present == {col[i].n : i \in {j \in 1..Len(col) : NotNa(col[j])}}
    IN  CHOOSE m \in present : \A x \in present : m <= x

AnyNotNa(col) == \E i \in 1..Len(col) : NotNa(col[i])

\* Mutant of assert_quality_constraints: the uniqueness assertion is missing.
assert_quality_constraints_NoUniqueness(dim) ==
    LET total == Len(dim)
        titled == Cardinality({i \in 1..total : NotNa(dim[i].titulo)})
        anio == Column(dim, "anio_publicacion")
        precio == Column(dim, "precio")
    IN  IF ~(total > 0) THEN "dim_book vacio"
        ELSE IF ~(10 * titled >= MinTitleTenths * total) THEN "titulo no nulo"
        ELSE IF AnyNotNa(anio) /\ ~(Min(anio) >= MinYear) THEN "anio sospechoso"
        ELSE IF AnyNotNa(precio) /\ ~(Min(precio) > MinPrice) THEN "precio no positivo"
        ELSE "ok"

\* Mutant of assert_quality_constraints: frac_titulo > 0.8 for >= 0.8.
assert_quality_constraints_StrictTitle(dim) ==
    LET total == Len(dim)
        titled == Cardinality({i \in 1..total : NotNa(dim[i].titulo)})
        anio == Column(dim, "anio_publicacion")
        precio == Column(dim, "precio")
    IN  IF ~(total > 0) THEN "dim_book vacio"
        ELSE IF ~is_unique(Column(dim, "book_id")) THEN "book_id no es unico"
        ELSE IF ~(10 * titled > MinTitleTenths * total) THEN "titulo no nulo"
        ELSE IF AnyNotNa(anio) /\ ~(Min(anio) >= MinYear) THEN "anio sospechoso"
        ELSE IF AnyNotNa(precio) /\ ~(Min(precio) > MinPrice) THEN "precio no positivo"
        ELSE "ok"

\* assert_quality_constraints: "ok", or the assertion that fails first.
assert_quality_constraints(dim) ==
    LET total == Len(dim)
        titled == Cardinality({i \in 1..total : NotNa(dim[i].titulo)})
        anio == Column(dim, "anio_publicacion")
        precio == Column(dim, "precio")
    IN  IF ~(total > 0) THEN "dim_book vacio"
        ELSE IF ~is_unique(Column(dim, "book_id")) THEN "book_id no es unico"
        ELSE IF ~(10 * titled >= MinTitleTenths * total) THEN "titulo no nulo"
        ELSE IF AnyNotNa(anio) /\ ~(Min(anio) >= MinYear) THEN "anio sospechoso"
        ELSE IF AnyNotNa(precio) /\ ~(Min(precio) > MinPrice) THEN "precio no positivo"
        ELSE "ok"

\* generate_schema_md: one line per column of dim_book
generate_schema_md(dim) ==
    {"book_id", "titulo", "titulo_normalizado", "autor_principal", "editorial",
     "anio_publicacion", "fecha_publicacion", "idioma", "isbn13", "formato",
     "precio", "moneda", "rating", "fuente_ganadora", "ts_ultima_actualizacion"}

\* -------------------------------------------------------------------- state
\* A file that may be missing is a sequence: <<>> when absent, <<content>>
\* once written.
VARIABLES
    goodreads_json,             \* landing/goodreads_books.json
    googlebooks_csv,            \* landing/googlebooks_books.csv
    pc,                         \* the step to run next
    error,                      \* the exception that ended the run, or "none"
    df_goodreads,               \* main's locals
    df_google,
    df_all,
    df_winner,                  \* build_dim_book's local
    dim_book,
    quality_metrics_json,       \* docs/quality_metrics.json
    dim_book_parquet,           \* standard/dim_book.parquet
    book_source_detail_parquet, \* standard/book_source_detail.parquet
    schema_md,                  \* docs/schema.md
    clock,                      \* pd.Timestamp.utcnow(), counted from the first run
    previous,                   \* what the execution before this one computed
    arg,                        \* the argument of a normalizer function called alone
    ret,                        \* and what it returned
    records,                    \* enrich_with_google_books: its parameter
    idx,                        \* and its locals
    query,
    volume,
    enriched,
    api_calls,                  \* the calls call_google_books_api has received
    max_books,                  \* search_book_ids: its parameter
    page,                       \* and its locals
    rows,
    book_ids,
    fetched                     \* the search pages fetch_html was asked for

inputs == <<goodreads_json, googlebooks_csv>>
frames == <<df_goodreads, df_google, df_all, df_winner, dim_book>>
outputs == <<quality_metrics_json, dim_book_parquet, book_source_detail_parquet, schema_md>>
calls == <<arg, ret>>
enrichment == <<records, idx, query, volume, enriched, api_calls>>
search == <<max_books, page, rows, book_ids, fetched>>
vars == <<inputs, pc, error, frames, outputs, clock, previous, calls, enrichment, search>>

NoLocals ==
    /\ df_goodreads = <<>> /\ df_google = <<>> /\ df_all = <<>>
    /\ df_winner = <<>> /\ dim_book = <<>>

NoOutputs ==
    /\ quality_metrics_json = <<>> /\ dim_book_parquet = <<>>
    /\ book_source_detail_parquet = <<>> /\ schema_md = <<>>

\* The first execution: the clock is read from it, nothing came before.
FirstRun == clock = 0 /\ previous = <<>>

NoCall == arg = None /\ ret = None

NoEnrichment ==
    /\ records = <<>> /\ idx = 0 /\ query = None /\ volume = None
    /\ enriched = <<>> /\ api_calls = <<>>

NoSearch == max_books = 0 /\ page = 0 /\ rows = <<>> /\ book_ids = <<>> /\ fetched = 0

Init ==
    /\ goodreads_json \in LandingFiles(GoodreadsRecords, MaxGoodreads)
    /\ googlebooks_csv \in LandingFiles(GoogleRecords, MaxGoogle)
    /\ pc = "load_goodreads"
    /\ error = "none"
    /\ NoLocals
    /\ NoOutputs
    /\ FirstRun /\ NoCall /\ NoEnrichment /\ NoSearch

Raise(e) == pc' = "failed" /\ error' = e

\* main, line 380: df_goodreads = load_goodreads()
LoadGoodreads ==
    /\ pc = "load_goodreads"
    /\ IF ~goodreads_json.exists
       THEN Raise("FileNotFoundError") /\ UNCHANGED df_goodreads
       ELSE /\ df_goodreads' = load_goodreads(goodreads_json.rows)
            /\ pc' = "load_googlebooks"
            /\ UNCHANGED error
    /\ UNCHANGED <<inputs, df_google, df_all, df_winner, dim_book, outputs>>
    /\ UNCHANGED <<clock, previous, calls, enrichment, search>>

\* Mutant of LoadGooglebooks: a missing file is read as an empty one.
LoadGooglebooks_NoExistenceCheck ==
    /\ pc = "load_googlebooks"
    /\ df_google' = load_googlebooks(googlebooks_csv.rows)
    /\ pc' = "normalize"
    /\ UNCHANGED <<inputs, error, df_goodreads, df_all, df_winner, dim_book, outputs>>
    /\ UNCHANGED <<clock, previous, calls, enrichment, search>>

\* main, line 381: df_google = load_googlebooks()
LoadGooglebooks ==
    /\ pc = "load_googlebooks"
    /\ IF ~googlebooks_csv.exists
       THEN Raise("FileNotFoundError") /\ UNCHANGED df_google
       ELSE /\ df_google' = load_googlebooks(googlebooks_csv.rows)
            /\ pc' = "normalize"
            /\ UNCHANGED error
    /\ UNCHANGED <<inputs, df_goodreads, df_all, df_winner, dim_book, outputs>>
    /\ UNCHANGED <<clock, previous, calls, enrichment, search>>

\* main, lines 387-393: concat and normalize_and_add_fields
Normalize ==
    /\ pc = "normalize"
    /\ df_all' = normalize_and_add_fields(concat(df_goodreads, df_google))
    /\ pc' = "quality_metrics"
    /\ UNCHANGED <<inputs, error, df_goodreads, df_google, df_winner, dim_book, outputs>>
    /\ UNCHANGED <<clock, previous, calls, enrichment, search>>

\* main, lines 396-400: compute_quality_metrics and json.dump
WriteQualityMetrics ==
    /\ pc = "quality_metrics"
    /\ quality_metrics_json' = <<compute_quality_metrics(df_all)>>
    /\ pc' = "build_dim_book"
    /\ UNCHANGED <<inputs, error, frames, dim_book_parquet,
                   book_source_detail_parquet, schema_md>>
    /\ UNCHANGED <<clock, previous, calls, enrichment, search>>

\* main, line 403: dim_book = build_dim_book(df_all), which adds the column
\* source_priority to df_all in place
BuildDimBook ==
    /\ pc = "build_dim_book"
    /\ df_all' = with_priority(df_all)
    /\ df_winner' = winners(df_all')
    /\ dim_book' = build_dim_book(df_all, clock)
    /\ pc' = "assert_quality"
    /\ UNCHANGED <<inputs, error, df_goodreads, df_google, outputs>>
    /\ UNCHANGED <<clock, previous, calls, enrichment, search>>

\* main, line 404: assert_quality_constraints(dim_book)
AssertQuality ==
    /\ pc = "assert_quality"
    /\ IF assert_quality_constraints(dim_book) = "ok"
       THEN pc' = "write_dim_book" /\ UNCHANGED error
       ELSE Raise("AssertionError")
    /\ UNCHANGED <<inputs, frames, outputs>>
    /\ UNCHANGED <<clock, previous, calls, enrichment, search>>

\* main, lines 405-406: dim_book.to_parquet
WriteDimBook ==
    /\ pc = "write_dim_book"
    /\ dim_book_parquet' = <<dim_book>>
    /\ pc' = "write_detail"
    /\ UNCHANGED <<inputs, error, frames, quality_metrics_json,
                   book_source_detail_parquet, schema_md>>
    /\ UNCHANGED <<clock, previous, calls, enrichment, search>>

\* main, lines 410-411: build_book_source_detail and to_parquet
WriteSourceDetail ==
    /\ pc = "write_detail"
    /\ book_source_detail_parquet' = <<build_book_source_detail(df_all)>>
    /\ pc' = "write_schema"
    /\ UNCHANGED <<inputs, error, frames, quality_metrics_json,
                   dim_book_parquet, schema_md>>
    /\ UNCHANGED <<clock, previous, calls, enrichment, search>>

\* main, lines 415-417: generate_schema_md and write
WriteSchema ==
    /\ pc = "write_schema"
    /\ schema_md' = <<generate_schema_md(dim_book)>>
    /\ pc' = "done"
    /\ UNCHANGED <<inputs, error, frames, quality_metrics_json,
                   dim_book_parquet, book_source_detail_parquet>>
    /\ UNCHANGED <<clock, previous, calls, enrichment, search>>

Next ==
    \/ LoadGoodreads
    \/ LoadGooglebooks
    \/ Normalize
    \/ WriteQualityMetrics
    \/ BuildDimBook
    \/ AssertQuality
    \/ WriteDimBook
    \/ WriteSourceDetail
    \/ WriteSchema

Spec == Init /\ [][Next]_vars

\* ------------------------------------------- the validator on its own tables
\* Canonical tables of up to MaxTable rows, for assert_quality_constraints
\* alone: a row is titled or not, dated 1800, 1799 or undated, priced 1, 0 or
\* unpriced; row `twin` repeats the book_id of row 1 (twin = 1: none does).
TableRow(i, shape, twin) ==
    [book_id |-> IntToStr(IF i = twin THEN 1 ELSE i),
     titulo |-> IF shape = "untitled" THEN None ELSE StrCell(Emma),
     anio_publicacion |->
        CASE shape = "good" -> IntCell(MinYear)
          [] shape = "old" -> IntCell(MinYear - 1)
          [] OTHER -> NaN,
     precio |->
        CASE shape = "good" -> IntCell(MinPrice + 1)
          [] shape = "free" -> IntCell(MinPrice)
          [] OTHER -> NaN]

Shapes == {"good", "untitled", "old", "free"}

InitValidator ==
    /\ goodreads_json = [exists |-> TRUE, rows |-> <<>>]
    /\ googlebooks_csv = [exists |-> TRUE, rows |-> <<>>]
    /\ pc = "assert_quality"
    /\ error = "none"
    /\ df_goodreads = <<>> /\ df_google = <<>> /\ df_all = <<>> /\ df_winner = <<>>
    /\ \E k \in 0..MaxTable :
         \E shapes \in [1..k -> Shapes], twin \in 1..(IF k = 0 THEN 1 ELSE k) :
            dim_book = [i \in 1..k |-> TableRow(i, shapes[i], twin)]
    /\ NoOutputs
    /\ FirstRun /\ NoCall /\ NoEnrichment /\ NoSearch

SpecValidator == InitValidator /\ [][AssertQuality]_vars

\* ------------------------------------------------- executions that repeat
\* Most records in each landing file when an execution is repeated.
MaxRerunRecords == 1
\* Latest reading of the clock: the number of repetitions.
MaxClock == 1

InitRerun ==
    /\ goodreads_json \in LandingFiles(GoodreadsRecords, MaxRerunRecords)
    /\ googlebooks_csv \in LandingFiles(GoogleRecords, MaxRerunRecords)
    /\ pc = "load_goodreads"
    /\ error = "none"
    /\ NoLocals
    /\ NoOutputs
    /\ FirstRun /\ NoCall /\ NoEnrichment /\ NoSearch

\* What an execution leaves for the comparison with the next one.
Computed(of) ==
    <<[of |-> of, dim_book |-> dim_book, quality_metrics_json |-> quality_metrics_json]>>

\* build_dim_book is called once more on the dataset it was just called on
\* (df_all, which now has its source_priority column), at a later time.
CallBuildDimBookAgain ==
    /\ pc = "assert_quality"
    /\ clock < MaxClock
    /\ clock' = clock + 1
    /\ previous' = Computed("build_dim_book")
    /\ pc' = "build_dim_book"
    /\ UNCHANGED <<inputs, error, frames, outputs, calls, enrichment, search>>

\* main is run once more on the same landing files, at a later time; the
\* files the run before wrote are still there.
RunMainAgain ==
    /\ pc \in {"done", "failed"}
    /\ clock < MaxClock
    /\ clock' = clock + 1
    /\ previous' = Computed("main")
    /\ pc' = "load_goodreads"
    /\ error' = "none"
    /\ df_goodreads' = <<>> /\ df_google' = <<>> /\ df_all' = <<>>
    /\ df_winner' = <<>> /\ dim_book' = <<>>
    /\ UNCHANGED <<inputs, outputs, calls, enrichment, search>>

NextRerun == Next \/ CallBuildDimBookAgain \/ RunMainAgain

SpecRerun == InitRerun /\ [][NextRerun]_vars

\* ------------------------------------------ the normalizer functions alone
\* Longest language text passed to normalize_language_bcp47.
MaxText == 3

\* main is not running: no landing file is read, nothing is built or written.
NoPipeline ==
    /\ goodreads_json = [exists |-> FALSE, rows |-> <<>>]
    /\ googlebooks_csv = [exists |-> FALSE, rows |-> <<>>]
    /\ error = "none"
    /\ NoLocals /\ NoOutputs /\ FirstRun

\* Arguments of normalize_language_bcp47: no text, a number, and every text
\* of blanks, hyphens and letters up to MaxText characters, and a region tag.
LanguageArgs ==
    {None, NaN, IntCell(1), StrCell(<<"e", "n", "-", "U", "S">>)}
    \cup {StrCell(t) : t \in SeqsUpTo({" ", "-", "E", "n"}, MaxText)}

\* Arguments of is_valid_isbn13: no text, a number, the 13-digit texts that
\* differ from 9780306406157 in their first two and last three digits, and
\* texts that are not 13 digits.
Isbn13Middle == <<"8", "0", "3", "0", "6", "4", "0", "6">>

Isbn13Texts ==
    {<<a, b>> \o Isbn13Middle \o <<c, d, e>> :
        a \in {"4", "9"}, b \in {"2", "7"},
        c \in {Digits[i] : i \in 1..10}, d \in {Digits[i] : i \in 1..10},
        e \in {Digits[i] : i \in 1..10}}

OtherIsbnTexts ==
    { <<>>,
      <<"9", "7", "8">>,
      <<"9", "7">> \o Isbn13Middle \o <<"1", "5">>,
      <<"9", "7">> \o Isbn13Middle \o <<"1", "5", "7", "0">>,
      <<"9", "7">> \o Isbn13Middle \o <<"1", "5", "X">>,
      <<"9", "7">> \o Isbn13Middle \o <<"1", " ", "7">>,
      <<"9", "7", "8", " ">> \o SubSeq(Isbn13Middle, 2, 8) \o <<"1", "5", "7">>,
      <<"9", "7", "8", "-">> \o SubSeq(Isbn13Middle, 2, 8) \o <<"1", "5", "-", "7">>,
      <<"9", "7", "8", "-">> \o SubSeq(Isbn13Middle, 2, 8) \o <<"1", "5", "-", "8">>,
      <<" ", "9", "7">> \o Isbn13Middle \o <<"1", "5", "7", " ">>,
      <<"-", " ", "9", "7">> \o Isbn13Middle \o <<"1", "5", "8">> }

Isbn13Args ==
    {None, NaN, IntCell(978), FloatCell(978)}
    \cup {StrCell(t) : t \in Isbn13Texts \cup OtherIsbnTexts}

InitNormalizer ==
    /\ NoPipeline /\ NoEnrichment /\ NoSearch
    /\ ret = None
    /\ \/ pc = "is_valid_isbn13" /\ arg \in Isbn13Args
       \/ pc = "normalize_language_bcp47" /\ arg \in LanguageArgs

\* is_valid_isbn13, lines 18-23: the type, length and digit tests
IsValidIsbn13Guards ==
    /\ pc = "is_valid_isbn13"
    /\ IF isbn13_guards(arg)
       THEN pc' = "isbn13_checksum" /\ UNCHANGED ret
       ELSE pc' = "returned_is_valid_isbn13" /\ ret' = FALSE
    /\ UNCHANGED <<inputs, error, frames, outputs, clock, previous, arg,
                   enrichment, search>>

\* is_valid_isbn13, lines 25-34: the checksum
IsValidIsbn13Checksum ==
    /\ pc = "isbn13_checksum"
    /\ ret' = isbn13_checksum(isbn13_digits(arg))
    /\ pc' = "returned_is_valid_isbn13"
    /\ UNCHANGED <<inputs, error, frames, outputs, clock, previous, arg,
                   enrichment, search>>

\* normalize_language_bcp47, lines 30-38
NormalizeLanguage ==
    /\ pc = "normalize_language_bcp47"
    /\ ret' = normalize_language_bcp47(arg)
    /\ pc' = "returned_normalize_language_bcp47"
    /\ UNCHANGED <<inputs, error, frames, outputs, clock, previous, arg,
                   enrichment, search>>

NextNormalizer == IsValidIsbn13Guards \/ IsValidIsbn13Checksum \/ NormalizeLanguage

SpecNormalizer == InitNormalizer /\ [][NextNormalizer]_vars

\* ------------------------------------- enrich_googlebooks: the enrichment
\* Most records in goodreads_books.json when it is enriched.
MaxRecords == 2

Isbn10Text == <<"1", "2", "3", "4", "5", "6", "7", "8", "9", "0">>

\* Records of landing/goodreads_books.json (the keys build_query and
\* enrich_with_google_books read).
EnrichFileRecords ==
    { [title |-> StrCell(Dune), authors |-> StrCell(<<"h", ",", "x">>),
       isbn13 |-> None, isbn10 |-> StrCell(Isbn10Text)],
      [title |-> StrCell(Emma), authors |-> StrCell(<<"a">>),
       isbn13 |-> None, isbn10 |-> None],
      [title |-> None, authors |-> None, isbn13 |-> None, isbn10 |-> StrCell(Isbn10Text)],
      [title |-> None, authors |-> None, isbn13 |-> None, isbn10 |-> None] }

\* load_goodreads_records: pd.read_json, then df.to_dict(orient="records")
load_goodreads_records(file_rows) ==
    LET col == [f \in {"title", "authors", "isbn13", "isbn10"} |->
                    InferColumn(Column(file_rows, f), None)]
    IN  [i \in 1..Len(file_rows) |->
            [f \in {"title", "authors", "isbn13", "isbn10"} |-> col[f][i]]]

\* build_query.clean_isbn: the digits of the value when there are 10 or 13
clean_isbn(value) ==
    IF value = None THEN None
    ELSE LET t == Strip(PyStr(value))
             digits == SelectSeq(t, IsDigit)
         IN  IF t = <<>> \/ Lower(t) \in {<<"n", "o", "n", "e">>, <<"n", "u", "l", "l">>,
                                          <<"n", "a", "n">>}
             THEN None
             ELSE IF Len(digits) \in {10, 13} THEN StrCell(digits) ELSE None

\* str(authors).split(",")[0]
FirstAuthor(t) ==
    LET commas == {i \in 1..Len(t) : t[i] = ","}
    IN  IF commas = {} THEN t
        ELSE SubSeq(t, 1, (CHOOSE i \in commas : \A j \in commas : i <= j) - 1)

build_query(record) ==
    LET isbn13 == clean_isbn(record.isbn13)
        isbn10 == clean_isbn(record.isbn10)
        parts ==
            (IF Truthy(record.title) THEN <<PyStr(record.title)>> ELSE <<>>)
            \o (IF Truthy(record.authors)
                THEN <<FirstAuthor(PyStr(record.authors))>> ELSE <<>>)
    IN  IF Truthy(isbn13) THEN StrCell(<<"i", "s", "b", "n", ":">> \o isbn13.s)
        ELSE IF Truthy(isbn10) THEN StrCell(<<"i", "s", "b", "n", ":">> \o isbn10.s)
        ELSE IF parts = <<>> THEN None
        ELSE IF Len(parts) = 1 THEN StrCell(parts[1])
        ELSE StrCell(parts[1] \o <<" ">> \o parts[2])

\* call_google_books_api: the first item of the answer, or None when the
\* request fails or the answer has no items.  A volume is a dict; s is its id.
Volume == [k |-> "dict", s |-> <<"v">>, n |-> 0]

ApiResponses == {None, Volume}

\* parse_google_volume (the keys taken from volumeInfo and saleInfo are left out)
parse_google_volume(vol, q) ==
    [source |-> "google_books", query_used |-> q, google_volume_id |-> vol.s]

InitEnrich ==
    /\ \E file_rows \in SeqsUpTo(EnrichFileRecords, MaxRecords) :
          /\ goodreads_json = [exists |-> TRUE, rows |-> file_rows]
          /\ records = load_goodreads_records(file_rows)
    /\ googlebooks_csv = [exists |-> FALSE, rows |-> <<>>]
    /\ pc = "enrich_for"
    /\ error = "none"
    /\ NoLocals /\ NoOutputs /\ FirstRun /\ NoCall /\ NoSearch
    /\ idx = 0 /\ query = None /\ volume = None
    /\ enriched = <<>> /\ api_calls = <<>>

\* lines 179-184: the next record, its query
EnrichFor ==
    /\ pc = "enrich_for"
    /\ IF idx < Len(records)
       THEN /\ idx' = idx + 1
            /\ query' = build_query(records[idx + 1])
            /\ volume' = None
            /\ pc' = "enrich_first"
       ELSE /\ pc' = "enrich_returned"
            /\ UNCHANGED <<idx, query, volume>>
    /\ UNCHANGED <<inputs, error, frames, outputs, clock, previous, calls,
                   records, enriched, api_calls, search>>

\* lines 186-187: the first attempt, with the query
EnrichFirstAttempt ==
    /\ pc = "enrich_first"
    /\ IF Truthy(query)
       THEN \E answer \in ApiResponses :
                /\ volume' = answer
                /\ api_calls' = Append(api_calls, [idx |-> idx, q |-> query, volume |-> answer])
       ELSE UNCHANGED <<volume, api_calls>>
    /\ pc' = "enrich_second"
    /\ UNCHANGED <<inputs, error, frames, outputs, clock, previous, calls,
                   records, idx, query, enriched, search>>

\* lines 190-194: the second attempt, with the title only
EnrichSecondAttempt ==
    /\ pc = "enrich_second"
    /\ IF volume = None /\ Truthy(records[idx].title)
       THEN \E answer \in ApiResponses :
                /\ volume' = answer
                /\ api_calls' = Append(api_calls,
                        [idx |-> idx, q |-> records[idx].title, volume |-> answer])
       ELSE UNCHANGED <<volume, api_calls>>
    /\ pc' = "enrich_append"
    /\ UNCHANGED <<inputs, error, frames, outputs, clock, previous, calls,
                   records, idx, query, enriched, search>>

\* lines 196-201: the record is skipped, or its volume parsed and appended
EnrichAppend ==
    /\ pc = "enrich_append"
    /\ IF volume = None
       THEN UNCHANGED enriched
       ELSE enriched' = Append(enriched,
                parse_google_volume(volume,
                    IF Truthy(query) THEN query
                    ELSE IF Truthy(records[idx].title) THEN records[idx].title
                    ELSE StrCell(<<>>)))
    /\ pc' = "enrich_for"
    /\ UNCHANGED <<inputs, error, frames, outputs, clock, previous, calls,
                   records, idx, query, volume, api_calls, search>>

NextEnrich == EnrichFor \/ EnrichFirstAttempt \/ EnrichSecondAttempt \/ EnrichAppend

SpecEnrich == InitEnrich /\ [][NextEnrich]_vars

\* ------------------------------------- scrape_goodreads: search_book_ids
MAX_PAGINAS_BUSQUEDA == 5
\* Largest max_books asked for.
MaxBooksAsked == 3
\* Most result rows on a search page.
MaxRows == 2

\* A result row of a search page: without a.bookTitle link ("nolink"), with
\* a link whose href holds no /book/show/<id> ("noid"), or with a book id.
SearchRows == {"nolink", "noid", "1", "2", "3"}

\* What fetch_html and soup.select give for a search page: None when the
\* download fails, else the result rows of the page.
SearchPages ==
    {[html |-> "none", rows |-> <<>>]}
        \cup {[html |-> "text", rows |-> r] : r \in SeqsUpTo(SearchRows, MaxRows)}

InitSearch ==
    /\ NoPipeline /\ NoCall /\ NoEnrichment
    /\ pc = "search_for"
    /\ max_books \in 1..MaxBooksAsked
    /\ page = 0 /\ rows = <<>> /\ book_ids = <<>> /\ fetched = <<>>

\* lines 114-129: the next page is fetched; the search stops when the
\* pages are used up, the download fails or the page has no result row
SearchFetchPage ==
    /\ pc = "search_for"
    /\ IF page < MAX_PAGINAS_BUSQUEDA
       THEN /\ page' = page + 1
            /\ \E got \in SearchPages :
                  /\ fetched' = Append(fetched,
                        [page |-> page + 1,
                         outcome |-> IF got.html = "none" THEN "failed"
                                     ELSE IF got.rows = <<>> THEN "empty" ELSE "rows"])
                  /\ IF got.html = "none" \/ got.rows = <<>>
                     THEN pc' = "search_returned" /\ UNCHANGED rows
                     ELSE pc' = "search_rows" /\ rows' = got.rows
       ELSE /\ pc' = "search_returned"
            /\ UNCHANGED <<page, rows, fetched>>
    /\ UNCHANGED <<inputs, error, frames, outputs, clock, previous, calls,
                   enrichment, max_books, book_ids>>

\* Mutant of SearchRow: an id is appended whether or not it is in the list.
SearchRow_NoMembershipTest ==
    /\ pc = "search_rows"
    /\ IF rows = <<>>
       THEN /\ pc' = IF Len(book_ids) >= max_books THEN "search_returned" ELSE "search_for"
            /\ UNCHANGED <<rows, book_ids>>
       ELSE LET row == Head(rows)
                found == IF row \in {"nolink", "noid"}
                         THEN book_ids ELSE Append(book_ids, row)
            IN  /\ book_ids' = found
                /\ IF row # "nolink" /\ Len(found) >= max_books
                   THEN pc' = "search_returned" /\ rows' = <<>>
                   ELSE pc' = "search_rows" /\ rows' = Tail(rows)
    /\ UNCHANGED <<inputs, error, frames, outputs, clock, previous, calls,
                   enrichment, max_books, page, fetched>>

\* lines 131-148: one result row (a row without link is passed over, a new
\* id is appended, the loops are left when max_books ids are found), or,
\* the rows being done, the test of line 145 and the next page
SearchRow ==
    /\ pc = "search_rows"
    /\ IF rows = <<>>
       THEN /\ pc' = IF Len(book_ids) >= max_books THEN "search_returned" ELSE "search_for"
            /\ UNCHANGED <<rows, book_ids>>
       ELSE LET row == Head(rows)
                found == IF row \in {"nolink", "noid"} \/ (\E k \in 1..Len(book_ids) : book_ids[k] = row)
                         THEN book_ids ELSE Append(book_ids, row)
            IN  /\ book_ids' = found
                /\ IF row # "nolink" /\ Len(found) >= max_books
                   THEN pc' = "search_returned" /\ rows' = <<>>
                   ELSE pc' = "search_rows" /\ rows' = Tail(rows)
    /\ UNCHANGED <<inputs, error, frames, outputs, clock, previous, calls,
                   enrichment, max_books, page, fetched>>

NextSearch == SearchFetchPage \/ SearchRow

\* The one thread of search_book_ids runs on until it returns: a download
\* ends within its timeout, the pause between pages is finite.
SpecSearch == InitSearch /\ [][NextSearch]_vars /\ WF_vars(NextSearch)

\* ===================================================================== claims
\* main has run build_dim_book: df_winner and dim_book hold its result.
Built ==
    \/ pc \in {"assert_quality", "write_dim_book", "write_detail", "write_schema", "done"}
    \/ pc = "failed" /\ error = "AssertionError"

\* main has run normalize_and_add_fields: df_all holds the normalized records.
Normalized == pc = "quality_metrics" \/ pc = "build_dim_book" \/ Built

Rejected == pc = "failed" /\ error = "AssertionError"

\* The record of the landing files that row r of df_all was read from.
FileRecord(r) ==
    IF r.source = "goodreads" THEN goodreads_json.rows[r.row_number]
    ELSE googlebooks_csv.rows[r.row_number]

\* The text of a file cell, "" for an absent one.
TextOf(c) == IF c.k = "str" THEN c.s ELSE <<>>

\* The ISBN-13 text, trimmed, that the landing file gives for row r ("" if none).
FileIsbn13(r) ==
    Strip(TextOf(IF r.source = "goodreads" THEN FileRecord(r).isbn13
                 ELSE FileRecord(r).isbn13_gb))

FileAuthor(r) ==
    TextOf(IF r.source = "goodreads" THEN FileRecord(r).authors
           ELSE FileRecord(r).authors_gb)

\* The publication year of row r as a text, "" when the row has no valid date.
YearText(r) ==
    IF IsNull(r.fecha_publicacion) THEN <<>> ELSE SubSeq(r.fecha_publicacion.s, 1, 4)

\* The priority the specification gives a source.
StatedPriority(source) ==
    IF source = "google_books" THEN 2 ELSE IF source = "goodreads" THEN 1 ELSE 0

Group(key) == {i \in 1..Len(df_all) : df_all[i].book_id_candidato = key}

\* C1 (stated as claimed; the code violates it): when the validator rejects
\* the canonical table, no output artifact has been written in that run.
C1_NoArtifactWhenRejected == Rejected => NoOutputs

\* C2: every canonical row is built from exactly one record of its group, a
\* record of the highest source priority present in the group, and all its
\* fields are that record's.
C2_PriorityTakeAll ==
    Built =>
        \A n \in 1..Len(df_winner) :
            \E i \in Group(df_winner[n].book_id_candidato) :
                /\ \A j \in Group(df_winner[n].book_id_candidato) :
                      StatedPriority(df_all[j].source) <= StatedPriority(df_all[i].source)
                /\ \A f \in DOMAIN df_all[i] : df_winner[n][f] = df_all[i][f]
                /\ dim_book[n].fuente_ganadora = df_all[i].source
                /\ dim_book[n].titulo = df_all[i].title
                /\ dim_book[n].titulo_normalizado = df_all[i].title_normalized
                /\ dim_book[n].autor_principal = df_all[i].autor_principal
                /\ dim_book[n].editorial = df_all[i].editorial
                /\ dim_book[n].anio_publicacion = df_all[i].anio_publicacion
                /\ dim_book[n].isbn13 = df_all[i].isbn13
                /\ dim_book[n].precio = df_all[i].precio
                /\ dim_book[n].moneda = df_all[i].moneda
                /\ dim_book[n].rating = df_all[i].rating_value

\* C2 witness: a group holds a goodreads and a google_books record, and the
\* canonical row is the google_books one.
C2_Witness ==
    /\ Built
    /\ \E n \in 1..Len(df_winner) :
         /\ dim_book[n].fuente_ganadora = "google_books"
         /\ \E i \in Group(df_winner[n].book_id_candidato) : df_all[i].source = "goodreads"

\* C3: one canonical row per distinct candidate key, and the key of every
\* record is that of exactly one canonical row.
C3_OneRowPerKey ==
    Built =>
        /\ Len(dim_book) = Cardinality({df_all[i].book_id_candidato : i \in 1..Len(df_all)})
        /\ Len(df_winner) = Len(dim_book)
        /\ \A i \in 1..Len(df_all) :
              Cardinality({n \in 1..Len(df_winner) :
                  df_winner[n].book_id_candidato = df_all[i].book_id_candidato}) = 1

\* C3 witness: several groups, one of them with more than one record.
C3_Witness == Built /\ Len(dim_book) >= 2 /\ Len(df_all) > Len(dim_book)

\* C4 (stated as claimed; the code violates it): canonical rows of distinct
\* candidate-key groups never share a book_id (the digest being injective).
C4_DistinctGroupsDistinctIds ==
    Built =>
        \A m, n \in 1..Len(df_winner) :
            df_winner[m].book_id = df_winner[n].book_id => m = n

\* C5: a persisted canonical table has pairwise distinct book_id values and
\* is the table the run built and validated.
C5_PersistedIdsDistinct ==
    dim_book_parquet # <<>> =>
        /\ \A m, n \in 1..Len(dim_book_parquet[1]) :
              m # n => dim_book_parquet[1][m].book_id # dim_book_parquet[1][n].book_id
        /\ dim_book_parquet[1] = dim_book
        /\ ~Rejected

\* C5 witness: a canonical table of several rows has been persisted.
C5_Witness == dim_book_parquet # <<>> /\ Len(dim_book_parquet[1]) >= 2

\* The five conditions of the validator, as the specification states them.
Titled(dim) == Cardinality({i \in 1..Len(dim) : ~IsNull(dim[i].titulo)})

FiveConditions(dim) ==
    /\ Len(dim) > 0
    /\ \A m, n \in 1..Len(dim) : m # n => dim[m].book_id # dim[n].book_id
    /\ 100 * Titled(dim) >= 80 * Len(dim)
    /\ \A i \in 1..Len(dim) :
          ~IsNull(dim[i].anio_publicacion) => dim[i].anio_publicacion.n >= 1800
    /\ \A i \in 1..Len(dim) : ~IsNull(dim[i].precio) => dim[i].precio.n > 0

\* C6: the validator accepts a table exactly when the five conditions hold,
\* and otherwise raises and the run aborts.
C6_AcceptsIffFiveConditions ==
    pc # "assert_quality" =>
        /\ (pc = "write_dim_book" /\ error = "none") <=> FiveConditions(dim_book)
        /\ Rejected <=> ~FiveConditions(dim_book)

\* C6 witness: a table with exactly 80% of its rows titled is accepted.
C6_Witness ==
    /\ pc = "write_dim_book"
    /\ Len(dim_book) = 5
    /\ Titled(dim_book) = 4
    /\ \E i \in 1..5 : ~IsNull(dim_book[i].anio_publicacion)
    /\ \E i \in 1..5 : ~IsNull(dim_book[i].precio)

\* C7: when a landing file is missing the run stops with a fatal error before
\* any normalization, merge or write.
C7_MissingInputStopsRun ==
    (~goodreads_json.exists \/ ~googlebooks_csv.exists) =>
        /\ pc \in {"load_goodreads", "load_googlebooks", "failed"}
        /\ pc = "failed" => error = "FileNotFoundError"
        /\ df_all = <<>> /\ df_winner = <<>> /\ dim_book = <<>>
        /\ NoOutputs

\* C7 witness: goodreads was loaded with records, googlebooks is missing, and
\* the run has stopped on it.
C7_Witness ==
    /\ pc = "failed" /\ error = "FileNotFoundError"
    /\ goodreads_json.exists /\ ~googlebooks_csv.exists
    /\ Len(df_goodreads) > 0

\* The key the specification gives row r: its ISBN-13 when it has one, else
\* title, author and year joined by "|", an absent one being "".
StatedKey(r) ==
    IF FileIsbn13(r) # <<>> THEN FileIsbn13(r)
    ELSE r.title_normalized \o <<"|">> \o FileAuthor(r) \o <<"|">> \o YearText(r)

\* C8 (stated as claimed; the code violates it): the candidate key of every
\* record is its ISBN-13 when it has one, and otherwise title_normalized,
\* autor_principal and anio_publicacion joined by "|", absent ones empty.
C8_CandidateKey ==
    Normalized =>
        \A i \in 1..Len(df_all) : df_all[i].book_id_candidato = StatedKey(df_all[i])

\* C9 (stated as claimed; the code violates it): book_id is the winner's
\* ISBN-13 when it has one and else the digest of its candidate key, and a
\* goodreads and a google_books record with one ISBN-13 make one canonical
\* row with that ISBN-13 as book_id.
C9_BookIdOfWinner ==
    /\ \A n \in 1..Len(df_winner) :
          df_winner[n].book_id =
              IF FileIsbn13(df_winner[n]) # <<>> THEN FileIsbn13(df_winner[n])
              ELSE md5_hexdigest_12(df_winner[n].book_id_candidato)

C9_SameIsbnMerges ==
    \A i, j \in 1..Len(df_all) :
        (/\ df_all[i].source = "goodreads" /\ df_all[j].source = "google_books"
         /\ FileIsbn13(df_all[i]) # <<>>
         /\ FileIsbn13(df_all[i]) = FileIsbn13(df_all[j]))
        => /\ df_all[i].book_id_candidato = df_all[j].book_id_candidato
           /\ \A n \in 1..Len(df_winner) :
                 df_winner[n].book_id_candidato = df_all[i].book_id_candidato
                 => df_winner[n].book_id = FileIsbn13(df_all[i])

C9_BookId == Built => C9_BookIdOfWinner /\ C9_SameIsbnMerges

\* C10: the persisted source detail table has exactly one row per record of
\* the two landing files, and each row carries the candidate key of the
\* group its record was merged under.
C10_DetailOneRowPerRecord ==
    book_source_detail_parquet # <<>> =>
        LET detail == book_source_detail_parquet[1]
            rowsOf(source, k) ==
                {i \in 1..Len(detail) :
                    detail[i].source = source /\ detail[i].row_number = k}
        IN  /\ Len(detail) = Len(goodreads_json.rows) + Len(googlebooks_csv.rows)
            /\ \A k \in 1..Len(goodreads_json.rows) :
                  /\ Cardinality(rowsOf("goodreads", k)) = 1
                  /\ \A i \in rowsOf("goodreads", k) :
                        TextOf(detail[i].titulo) = TextOf(goodreads_json.rows[k].title)
            /\ \A k \in 1..Len(googlebooks_csv.rows) :
                  /\ Cardinality(rowsOf("google_books", k)) = 1
                  /\ \A i \in rowsOf("google_books", k) :
                        TextOf(detail[i].titulo) = TextOf(googlebooks_csv.rows[k].title_gb)
            /\ \A i \in 1..Len(detail) :
                  /\ detail[i].book_id_candidato = df_all[i].book_id_candidato
                  /\ \E n \in 1..Len(df_winner) :
                        df_winner[n].book_id_candidato = detail[i].book_id_candidato

\* C10 witness: the detail is persisted with records of both files, two of
\* which were merged into one canonical row.
C10_Witness ==
    /\ book_source_detail_parquet # <<>>
    /\ Len(book_source_detail_parquet[1]) > Len(dim_book_parquet[1])
    /\ \E i, j \in 1..Len(book_source_detail_parquet[1]) :
         /\ book_source_detail_parquet[1][i].source = "goodreads"
         /\ book_source_detail_parquet[1][j].source = "google_books"

\* The cells the landing file gives for row r.
FileCell(r, goodreads_field, google_field) ==
    IF r.source = "goodreads"
    THEN (IF goodreads_field = "" THEN None ELSE FileRecord(r)[goodreads_field])
    ELSE FileRecord(r)[google_field]

\* A date is well formed when it reads YYYY-MM-DD, an ISBN-13 when it is 13
\* digits, a language when it is a 2-character code once trimmed, a currency
\* when it is not blank.
MalformedDate(r) ==
    LET c == FileCell(r, "publication_info_raw", "published_date_raw")
    IN  ~(c.k = "str" /\ Len(c.s) = 10 /\ c.s[5] = "-" /\ c.s[8] = "-"
          /\ \A i \in {1, 2, 3, 4, 6, 7, 9, 10} : IsDigit(c.s[i]))

MalformedIsbn(r) ==
    LET c == FileCell(r, "isbn13", "isbn13_gb")
    IN  ~(c.k = "str" /\ Len(Strip(c.s)) = 13 /\ IsDigits(Strip(c.s)))

MalformedLanguage(r) ==
    LET c == FileCell(r, "", "language_raw")
    IN  ~(c.k = "str" /\ Len(Strip(c.s)) = 2)

MalformedCurrency(r) ==
    LET c == FileCell(r, "", "price_currency")
    IN  ~(c.k = "str" /\ Strip(c.s) # <<>>)

\* C11 (stated as claimed; the code violates it): every record of the landing
\* files is normalized, and a malformed or missing date, ISBN, language or
\* currency leaves the normalized field null and its validity flag false.
C11_MalformedFieldDegradesToNull ==
    Normalized =>
        /\ Len(df_all) = Len(goodreads_json.rows) + Len(googlebooks_csv.rows)
        /\ \A i \in 1..Len(df_all) :
              LET r == df_all[i]
              IN  /\ MalformedDate(r) =>
                        /\ IsNull(r.fecha_publicacion) /\ IsNull(r.anio_publicacion)
                        /\ ~r.valid_fecha_publicacion
                  /\ MalformedIsbn(r) => IsNull(r.isbn13) /\ ~r.valid_isbn13
                  /\ MalformedLanguage(r) => IsNull(r.idioma) /\ ~r.valid_idioma
                  /\ MalformedCurrency(r) => IsNull(r.moneda) /\ ~r.valid_moneda

\* C12 (stated as claimed; the code violates it): normalize_language_bcp47
\* returns xx-XX for an input that is a 2-character code xx once trimmed and
\* lower-cased, and None for every other input.
C12_LanguageTagOrNone ==
    pc = "returned_normalize_language_bcp47" =>
        IF arg.k = "str" /\ Len(Strip(arg.s)) = 2
        THEN ret = StrCell(Lower(Strip(arg.s)) \o <<"-">> \o Upper(Strip(arg.s)))
        ELSE ret = None

\* The check digit the specification gives the first twelve digits of d:
\* weight 1 at the 1st, 3rd, ... digit, weight 3 at the 2nd, 4th, ...
ReferenceCheckDigit(d) ==
    LET v(i) == DigitValue(d[i])
        sum == (v(1) + v(3) + v(5) + v(7) + v(9) + v(11))
               + 3 * (v(2) + v(4) + v(6) + v(8) + v(10) + v(12))
    IN  (10 - (sum % 10)) % 10

Exactly13Digits(c) == c.k = "str" /\ Len(c.s) = 13 /\ \A i \in 1..13 : IsDigit(c.s[i])

\* C13: for a string of exactly 13 digits is_valid_isbn13 returns true if and
\* only if the 13th digit is the reference check digit of the first twelve;
\* 9780306406157 is valid and 9780306406158 is not.
C13_ChecksumMatchesReference ==
    (pc = "returned_is_valid_isbn13" /\ Exactly13Digits(arg)) =>
        /\ ret = (DigitValue(arg.s[13]) = ReferenceCheckDigit(arg.s))
        /\ arg.s = <<"9", "7">> \o Isbn13Middle \o <<"1", "5", "7">> => ret = TRUE
        /\ arg.s = <<"9", "7">> \o Isbn13Middle \o <<"1", "5", "8">> => ret = FALSE

\* C13 witness: 9780306406157 was checked and found valid.
C13_Witness ==
    /\ pc = "returned_is_valid_isbn13"
    /\ arg = StrCell(<<"9", "7">> \o Isbn13Middle \o <<"1", "5", "7">>)
    /\ ret = TRUE

\* C14 as claimed (the code violates it): every input that is not exactly 13
\* digits is invalid, and its checksum is never evaluated.
C14_Not13DigitsIsInvalid ==
    /\ pc = "isbn13_checksum" => Exactly13Digits(arg)
    /\ (pc = "returned_is_valid_isbn13" /\ ~Exactly13Digits(arg)) => ret = FALSE

\* The text of c without its hyphens and its surrounding blanks is 13 digits.
Has13DigitsIgnoringHyphens(c) ==
    /\ c.k = "str"
    /\ LET t == Strip(SelectSeq(c.s, LAMBDA ch : ch # "-"))
       IN  Len(t) = 13 /\ \A i \in 1..13 : IsDigit(t[i])

\* C14 as amended: an input that is not a string, or whose text without its
\* hyphens and surrounding blanks is not exactly 13 digits, is invalid and
\* its checksum is never evaluated.
C14_Not13DigitsIgnoringHyphensIsInvalid ==
    /\ pc = "isbn13_checksum" => Has13DigitsIgnoringHyphens(arg)
    /\ (pc = "returned_is_valid_isbn13" /\ ~Has13DigitsIgnoringHyphens(arg))
          => ret = FALSE

\* C14 witness: a 12-digit text was rejected.
C14_Witness ==
    /\ pc = "returned_is_valid_isbn13"
    /\ arg = StrCell(<<"9", "7">> \o Isbn13Middle \o <<"1", "5">>)
    /\ ret = FALSE

\* The fields of a canonical row other than its update timestamp.
Untimed(row) == [f \in DOMAIN row \ {"ts_ultima_actualizacion"} |-> row[f]]

BookIds(dim) == {dim[n].book_id : n \in 1..Len(dim)}

Percentages(file) ==
    IF file = <<>> THEN <<>>
    ELSE <<file[1].porcentaje_valid_isbn13, file[1].porcentaje_valid_fecha_publicacion,
           file[1].porcentaje_valid_idioma, file[1].porcentaje_valid_moneda>>

\* C15: build_dim_book called a second time on the same normalized dataset
\* gives the same canonical rows but for ts_ultima_actualizacion, and main
\* run again on the same landing files gives the same set of book_id values
\* and the same quality percentages.
C15_RepeatGivesSameResult ==
    /\ (Built /\ previous # <<>> /\ previous[1].of = "build_dim_book") =>
          /\ Len(dim_book) = Len(previous[1].dim_book)
          /\ \A n \in 1..Len(dim_book) :
                Untimed(dim_book[n]) = Untimed(previous[1].dim_book[n])
    /\ (pc \in {"done", "failed"} /\ previous # <<>> /\ previous[1].of = "main") =>
          /\ BookIds(dim_book) = BookIds(previous[1].dim_book)
          /\ Percentages(quality_metrics_json) = Percentages(previous[1].quality_metrics_json)

\* C15 witness: build_dim_book was called again on a dataset whose books
\* have no ISBN and gave its rows a later timestamp.
C15_Witness ==
    /\ Built /\ previous # <<>> /\ previous[1].of = "build_dim_book"
    /\ \E n \in 1..Len(dim_book) :
          /\ ~IsStr(dim_book[n].isbn13)
          /\ dim_book[n].ts_ultima_actualizacion
                # previous[1].dim_book[n].ts_ultima_actualizacion

\* C16: every porcentaje_* metric of compute_quality_metrics lies in [0, 100]
\* (here in hundredths of a percent), and for a dataset of zero records the
\* metrics are computed all the same and every percentage is 0.
C16_PercentagesInRange ==
    /\ (Normalized /\ pc # "quality_metrics") => quality_metrics_json # <<>>
    /\ quality_metrics_json # <<>> =>
          LET metrics == quality_metrics_json[1]
              porcentajes ==
                  {metrics.porcentaje_valid_isbn13,
                   metrics.porcentaje_valid_fecha_publicacion,
                   metrics.porcentaje_valid_idioma,
                   metrics.porcentaje_valid_moneda}
          IN  /\ \A x \in porcentajes : 0 <= x /\ x <= 100 * 100
              /\ metrics.total_registros = 0 => porcentajes = {0}

\* C16 witness: the metrics of a dataset in which two of three records have
\* a valid date, and one a valid language.
C16_Witness ==
    /\ quality_metrics_json # <<>>
    /\ quality_metrics_json[1].total_registros = 3
    /\ quality_metrics_json[1].porcentaje_valid_fecha_publicacion = 6667
    /\ quality_metrics_json[1].porcentaje_valid_idioma = 3333

\* Row r has no ISBN-13 and no title, author or publication year.
Anonymous(r) ==
    /\ FileIsbn13(r) = <<>>
    /\ r.title_normalized = <<>>
    /\ FileAuthor(r) = <<>>
    /\ YearText(r) = <<>>

\* C17 (stated as claimed; the code violates it): the records without
\* ISBN-13, title, author and year all get one candidate key, and so make
\* one group and one canonical row.
C17_AnonymousRecordsCollapse ==
    Built =>
        \A i, j \in 1..Len(df_all) :
            (Anonymous(df_all[i]) /\ Anonymous(df_all[j])) =>
                /\ df_all[i].book_id_candidato = df_all[j].book_id_candidato
                /\ Cardinality({n \in 1..Len(df_winner) :
                        df_winner[n].book_id_candidato
                            \in {df_all[i].book_id_candidato, df_all[j].book_id_candidato}}) = 1

\* The calls made for record i, in the order they were made.
CallsOf(i) == SelectSeq(api_calls, LAMBDA c : c.idx = i)

\* enrich_with_google_books is done with record i.
Enriched(i) == i < idx \/ (i = idx /\ pc = "enrich_for") \/ pc = "enrich_returned"

\* Record i has a title: a text that is not empty.
HasTitle(i) == records[i].title.k = "str" /\ records[i].title.s # <<>>

GotVolume(i) == \E c \in 1..Len(CallsOf(i)) : CallsOf(i)[c].volume # None

\* The calls the claim gives record i: the query of build_query when it is
\* not None, then the title when that gave no volume and there is a title.
CallsAsClaimed(i) ==
    LET made == CallsOf(i)
        q == build_query(records[i])
        first == IF q = None THEN 0 ELSE 1
        first_gave_volume == q # None /\ Len(made) >= 1 /\ made[1].volume # None
        second == IF ~first_gave_volume /\ HasTitle(i) THEN 1 ELSE 0
    IN  /\ Len(made) = first + second
        /\ first = 1 => made[1].q = q
        /\ second = 1 => made[first + 1].q = records[i].title

\* The rows the claim gives the output: one for each record that got a
\* volume, in input order.
RowsAsClaimed ==
    LET done == {i \in 1..Len(records) : Enriched(i) /\ GotVolume(i)}
        nth(k) == CHOOSE i \in done : Cardinality({j \in done : j < i}) = k - 1
    IN  /\ Len(enriched) = Cardinality(done)
        /\ \A k \in 1..Len(enriched) :
              LET made == CallsOf(nth(k))
              IN  /\ enriched[k].google_volume_id = made[Len(made)].volume.s
                  /\ enriched[k].query_used \in {made[c].q : c \in 1..Len(made)}

\* C18 (stated as claimed; the code violates it): for each record, in input
\* order, the API is called at most twice, first with the query of
\* build_query when it is not None, then with the title alone exactly when
\* the first attempt gave no volume and the record has a title; a record
\* gives one enriched row when an attempt returned a volume and none
\* otherwise, the rows being in input order.
C18_AtMostTwoCallsOneRow ==
    /\ \A i \in 1..Len(records) : Len(CallsOf(i)) <= 2
    /\ \A a, b \in 1..Len(api_calls) : a < b => api_calls[a].idx <= api_calls[b].idx
    /\ \A i \in 1..Len(records) : Enriched(i) => CallsAsClaimed(i)
    /\ RowsAsClaimed

\* At most MAX_PAGINAS_BUSQUEDA pages are fetched, in order; a page that
\* fails or has no row is the last one fetched; the ids found are pairwise
\* distinct and no more than max_books.
SearchBounded ==
    /\ Len(fetched) <= 5
    /\ \A k \in 1..Len(fetched) :
          /\ fetched[k].page = k
          /\ fetched[k].outcome \in {"failed", "empty"} =>
                k = Len(fetched) /\ pc = "search_returned"
    /\ \A a, b \in 1..Len(book_ids) : book_ids[a] = book_ids[b] => a = b
    /\ Len(book_ids) <= max_books

\* C19: for max_books >= 1 search_book_ids returns, having fetched at most 5
\* search pages and none after the first page that failed to download or
\* had no result rows, a list of pairwise distinct book ids no longer than
\* max_books.
C19_SearchTerminatesBounded == []SearchBounded /\ <>(pc = "search_returned")

\* C19 witness: asked for more than one id, the search returned with one
\* id after two pages of results and a third page that failed to download.
C19_Witness ==
    /\ pc = "search_returned"
    /\ Len(fetched) = 3
    /\ fetched[2].outcome = "rows" /\ fetched[3].outcome = "failed"
    /\ Len(book_ids) = 1 /\ max_books > 1

====
